---- MODULE Spec2Model ----
(***************************************************************************)
(* Model of src/src/index.tsx (liquid-glass-react): the LiquidGlass        *)
(* component (pointer transform, mouse tracking effect, glass-size         *)
(* effects, press state) and its GlassContainer / GlassFilter children     *)
(* (shader displacement map generation, getMap).                           *)
(*                                                                         *)
(* Numbers.  JavaScript numbers are doubles; here                          *)
(*   - a length is an integer count of 1/LU pixel (LU = 2, so that         *)
(*     rect.width / 2 and pillWidth / 2 are exact);                        *)
(*   - a distance that went through Math.sqrt, and every factor (fade-in,  *)
(*     elasticity, scale, translation in px) is fixed point with FP units  *)
(*     per 1, products and quotients truncated toward zero.                *)
(* React.  A state setter queues an update; the value a render sees is     *)
(* the queue folded over the previous state.  Layout effects run inside    *)
(* the commit, passive effects (useEffect) run later, and always before    *)
(* the next render of the component.                                       *)
(***************************************************************************)
EXTENDS Integers, Sequences, FiniteSets, TLC

VARIABLES
    \* ---- LiquidGlass: props
    elasticity,        \* prop elasticity (FP)
    hasOnClick,        \* Boolean(onClick)
    extPos,            \* prop globalMousePos  (externalGlobalMousePos)
    extOffset,         \* prop mouseOffset     (externalMouseOffset)
    mouseContainer,    \* prop mouseContainer: "null" or "ref"
    mcCurrent,         \* mouseContainer.current: "null" or "outer"
    extGlass,          \* prop glassSize       (externalGlassSize)
    \* ---- LiquidGlass: refs, state, environment
    mounted,           \* glassRef.current is set (the first commit happened)
    rect,              \* glassRef.current.getBoundingClientRect()
    glassSize,         \* useState glassSize, as the last render saw it
    glassNext,         \* glassSize with the queued setGlassSize updates applied
    intPos,            \* useState internalGlobalMousePos
    intOffset,         \* useState internalMouseOffset (FP)
    isHovered,         \* useState isHovered
    isActive,          \* useState isActive
    domBox,            \* .glass element's getBoundingClientRect() size
    \* ---- LiquidGlass: effects
    listeners,         \* mousemove listeners: set of [target, closure container]
    mouseFx,           \* mouse tracking effect: what its cleanup will remove
    mousePending,      \* mouse tracking effect scheduled, not yet run
    sizeFx,            \* resize effect: what its cleanup will remove
    sizePending,       \* resize effect (486-509) scheduled, not yet run
    syncPending,       \* external-size effect (511-515) scheduled, not yet run
    \* ---- GlassContainer
    mode,              \* prop mode
    boxW, boxH,        \* prop glassSize.width / .height
    shaderMapUrl,      \* useState shaderMapUrl
    shaderPending,     \* shader generation effect scheduled, not yet run
    acquired,          \* generators constructed
    released,          \* generators destroyed
    genOutcome,        \* outcome of the last generation call
    crashed,           \* an exception left the component (render or effect)
    lastMap            \* the last getMap call: its arguments and result

tvars == <<elasticity, hasOnClick, extPos, extOffset, mounted, rect,
           intPos, intOffset, isHovered, isActive>>
mvars == <<mouseContainer, mcCurrent, listeners, mouseFx, mousePending>>
zvars == <<extGlass, glassSize, glassNext, domBox, sizeFx, sizePending, syncPending>>
svars == <<mode, boxW, boxH, shaderMapUrl, shaderPending, acquired, released,
           genOutcome, crashed, lastMap>>
vars == <<tvars, mvars, zvars, svars>>

----------------------------------------------------------------------------
(* Numeric model *)

\* Length units per pixel.
LU == 2
\* Fixed-point units per 1.
FP == 1000

Abs(x) == IF x < 0 THEN -x ELSE x
Max(a, b) == IF a > b THEN a ELSE b
Min(a, b) == IF a < b THEN a ELSE b
\* a / b truncated toward zero (b > 0)
Div(a, b) == IF a >= 0 THEN a \div b ELSE -((-a) \div b)
\* product of two fixed-point numbers
Mul(a, b) == Div(a * b, FP)

RECURSIVE ISqrtIn(_, _, _)
ISqrtIn(n, lo, hi) ==
    IF lo >= hi THEN lo
    ELSE LET mid == (lo + hi + 1) \div 2
         IN IF mid * mid <= n THEN ISqrtIn(n, mid, hi) ELSE ISqrtIn(n, lo, mid - 1)
\* floor of the square root of n, 0 <= n < 46340^2
ISqrt(n) == ISqrtIn(n, 0, 46339)
\* Math.sqrt of a sum of squares of lengths, as a fixed-point length (FP
\* units per length unit): the floor root plus one Newton step, so that the
\* root of a number above a square k*k is above k in fixed point too
SqrtLen(n) ==
    IF n = 0 THEN 0
    ELSE LET r == ISqrt(n) IN r * FP + Div((n - r * r) * FP, 2 * r)

----------------------------------------------------------------------------
(* PointerTransformEngine: lines 377-464, 517-518 *)

\* const activationZone = 200 (pixels)
activationZone == 200
\* "scale(0.96)": the pressed scale, in percent
pressedScalePct == 96
\* Math.max(0.8, ...): the scale floor, in percent
scaleFloorPct == 80

Pos(x, y) == [x |-> x, y |-> y]
\* a JavaScript number used as a condition: 0 is falsy
Falsy(n) == n = 0

\* rect.left + rect.width / 2 and rect.top + rect.height / 2, in length units
pillCenterX(r) == LU * r.left + Div(LU * r.width, 2)
pillCenterY(r) == LU * r.top + Div(LU * r.height, 2)
deltaX(p, r) == LU * p.x - pillCenterX(r)
deltaY(p, r) == LU * p.y - pillCenterY(r)

\* Math.max(0, Math.abs(delta) - pillWidth / 2), per axis
edgeDistanceX(p, r, gs) == Max(0, Abs(deltaX(p, r)) - Div(LU * gs.width, 2))
edgeDistanceY(p, r, gs) == Max(0, Abs(deltaY(p, r)) - Div(LU * gs.height, 2))
\* Math.sqrt(edgeDistanceX^2 + edgeDistanceY^2), LU*FP units per pixel
edgeDistance(p, r, gs) ==
    SqrtLen(edgeDistanceX(p, r, gs) * edgeDistanceX(p, r, gs)
            + edgeDistanceY(p, r, gs) * edgeDistanceY(p, r, gs))
\* 1 - edgeDistance / activationZone
FadeRamp(p, r, gs) == FP - Div(edgeDistance(p, r, gs), activationZone * LU)

\* Math.sqrt(deltaX^2 + deltaY^2), LU*FP units per pixel
centerDistance(p, r) ==
    SqrtLen(deltaX(p, r) * deltaX(p, r) + deltaY(p, r) * deltaY(p, r))

ScaleOne == [fn |-> "scale", x |-> FP, y |-> FP]
ScaleXY(sx, sy) == [fn |-> "scaleXY", x |-> sx, y |-> sy]

\* 1 + |a| * stretchIntensity * 0.3 - |b| * stretchIntensity * 0.15, with
\* a = delta / centerDistance along the axis and b along the other one
\* (d, o: the two deltas; cd: centerDistance; s: stretchIntensity)
StretchScale(d, o, cd, s) ==
    FP + Div(Mul(Abs(Div(d * FP, Div(cd, FP))), s) * 3, 10)
       - Div(Mul(Abs(Div(o * FP, Div(cd, FP))), s) * 15, 100)
\* Math.min(centerDistance / 300, 1) * elasticity * fadeInFactor
stretchIntensity(cd, el, fade) == Mul(Mul(Min(Div(cd, 300 * LU), FP), el), fade)
\* the scale factors before the floor (inside the zone, off the centre)
rawScaleX(p, el, r, gs) ==
    LET cd == centerDistance(p, r)
    IN StretchScale(deltaX(p, r), deltaY(p, r), cd, stretchIntensity(cd, el, FadeRamp(p, r, gs)))
rawScaleY(p, el, r, gs) ==
    LET cd == centerDistance(p, r)
    IN StretchScale(deltaY(p, r), deltaX(p, r), cd, stretchIntensity(cd, el, FadeRamp(p, r, gs)))
\* (faulty variant: the floor is dropped)
FloorScale_noFloor(s) == s
\* Math.max(0.8, scale)
FloorScale(s) == Max(Div(scaleFloorPct * FP, 100), s)

\* calculateDirectionalScale: p = globalMousePos, el = elasticity,
\* m = glassRef.current is set, r = its bounding rect, gs = glassSize
calculateDirectionalScale(p, el, m, r, gs) ==
    IF Falsy(p.x) \/ Falsy(p.y) \/ ~m THEN ScaleOne
    ELSE LET ed == edgeDistance(p, r, gs)
         IN IF ed > activationZone * LU * FP THEN ScaleOne
            ELSE LET fadeInFactor == FP - Div(ed, activationZone * LU)
                     cd == centerDistance(p, r)
                     s == stretchIntensity(cd, el, fadeInFactor)
                 IN IF cd = 0 THEN ScaleOne
                    ELSE ScaleXY(FloorScale(StretchScale(deltaX(p, r), deltaY(p, r), cd, s)),
                                 FloorScale(StretchScale(deltaY(p, r), deltaX(p, r), cd, s)))

\* (faulty variant: the ramp is not cut off at the activation zone)
calculateFadeInFactor_noZone(p, m, r, gs) ==
    IF Falsy(p.x) \/ Falsy(p.y) \/ ~m THEN 0 ELSE FadeRamp(p, r, gs)
\* calculateFadeInFactor
calculateFadeInFactor(p, m, r, gs) ==
    IF Falsy(p.x) \/ Falsy(p.y) \/ ~m THEN 0
    ELSE LET ed == edgeDistance(p, r, gs)
         IN IF ed > activationZone * LU * FP THEN 0
            ELSE FP - Div(ed, activationZone * LU)

\* (globalMousePos.x - pillCenterX) * elasticity * 0.1 * fadeInFactor, px in FP
ElasticAxis(d, el, fade) == Mul(Div(Div(d * el, LU), 10), fade)
\* calculateElasticTranslation
calculateElasticTranslation(p, el, m, r, gs) ==
    IF ~m THEN Pos(0, 0)
    ELSE LET fadeInFactor == calculateFadeInFactor(p, m, r, gs)
         IN Pos(ElasticAxis(deltaX(p, r), el, fadeInFactor),
                ElasticAxis(deltaY(p, r), el, fadeInFactor))

\* dynamicTransform: `${isActive && Boolean(onClick) ? "scale(0.96)" :
\* calculateDirectionalScale()} translate(${elastic.x}px, ${elastic.y}px)`
PressedScale == [fn |-> "scale", x |-> Div(pressedScalePct * FP, 100),
                                 y |-> Div(pressedScalePct * FP, 100)]
\* (faulty variant: the press override does not look at onClick)
dynamicTransform_noClickTest(active, onClick, p, el, m, r, gs) ==
    [scale |-> IF active THEN PressedScale
               ELSE calculateDirectionalScale(p, el, m, r, gs),
     translate |-> calculateElasticTranslation(p, el, m, r, gs)]
dynamicTransform(active, onClick, p, el, m, r, gs) ==
    [scale |-> IF active /\ onClick THEN PressedScale
               ELSE calculateDirectionalScale(p, el, m, r, gs),
     translate |-> calculateElasticTranslation(p, el, m, r, gs)]

\* externalGlobalMousePos || internalGlobalMousePos (an object is truthy)
None == [set |-> FALSE]
Some(v) == [set |-> TRUE, v |-> v]
globalMousePos == IF extPos.set THEN extPos.v ELSE intPos
mouseOffset == IF extOffset.set THEN extOffset.v ELSE intOffset
\* the transform the current render applies
appliedTransform ==
    dynamicTransform(isActive, hasOnClick, globalMousePos, elasticity, mounted, rect, glassSize)

----------------------------------------------------------------------------
(* Inputs of the pointer-transform specification *)

PointerXs == {0, 200, 400, 500, 870, 871}
PointerYs == {0, 300, 334, 500}
Pointers == {Pos(x, y) : x \in PointerXs, y \in PointerYs}
Rect(l, t, w, h) == [left |-> l, top |-> t, width |-> w, height |-> h]
Rects == {Rect(400, 300, 270, 69), Rect(100, 250, 200, 100)}
\* a glassSize object: width, height and the identity of the object
\* (id 0: created by the component; id > 0: an object the parent passed)
Size(w, h, id) == [width |-> w, height |-> h, id |-> id]
DefaultSize == Size(270, 69, 0)
Sizes == {DefaultSize, Size(200, 100, 0)}
Elasticities == {-2 * FP, 0, Div(15 * FP, 100), 50 * FP}
ExtPositions == {Pos(500, 300)}
ExtOffsets == {Pos(50 * FP, -20 * FP)}

\* values the other components hold while one component is explored
MouseIdle ==
    /\ mouseContainer = "null" /\ mcCurrent = "null"
    /\ listeners = {} /\ mouseFx = None /\ mousePending = FALSE
SizeIdle ==
    /\ extGlass = None /\ domBox = [width |-> 270, height |-> 69, id |-> 0]
    /\ sizeFx = None /\ sizePending = FALSE /\ syncPending = FALSE
ShaderIdle ==
    /\ mode = "standard" /\ boxW = DefaultSize.width /\ boxH = DefaultSize.height
    /\ shaderMapUrl = [kind |-> "empty"] /\ shaderPending = FALSE
    /\ acquired = 0 /\ released = 0 /\ genOutcome = "none" /\ crashed = FALSE
    /\ lastMap = None
PointerIdle ==
    /\ elasticity = Div(15 * FP, 100) /\ hasOnClick = FALSE
    /\ extPos = None /\ extOffset = None
    /\ rect \in {Rect(400, 300, 270, 69)}
    /\ intPos = Pos(0, 0) /\ intOffset = Pos(0, 0)
    /\ isHovered = FALSE /\ isActive = FALSE

----------------------------------------------------------------------------
(* LiquidGlass: pointer state and press state, lines 323-356, 651-654 *)

\* handleMouseMove(e), given the container's rect: the two state updates
handleMouseMoveOffset(x, y, r) ==
    Pos(Div(deltaX(Pos(x, y), r) * FP, LU * r.width) * 100,
        Div(deltaY(Pos(x, y), r) * FP, LU * r.height) * 100)
handleMouseMovePos(x, y) == Pos(x, y)

\* the first commit: glassRef.current is set
TMount ==
    /\ ~mounted
    /\ mounted' = TRUE
    /\ UNCHANGED <<elasticity, hasOnClick, extPos, extOffset, rect, intPos,
                   intOffset, isHovered, isActive>>
    /\ UNCHANGED <<mvars, zvars, svars>>

\* a mousemove on the tracked container while the internal listener is on
\* (mouseContainer is null here, so the container is glassRef.current)
TMouseMove ==
    /\ mounted /\ ~(extPos.set /\ extOffset.set)
    /\ \E p \in Pointers :
          /\ intOffset' = handleMouseMoveOffset(p.x, p.y, rect)
          /\ intPos' = handleMouseMovePos(p.x, p.y)
    /\ UNCHANGED <<elasticity, hasOnClick, extPos, extOffset, mounted, rect,
                   isHovered, isActive>>
    /\ UNCHANGED <<mvars, zvars, svars>>

\* the parent renders with other pointer props
TExternalPointer ==
    /\ mounted
    /\ extPos' \in {None} \cup {Some(p) : p \in ExtPositions}
    /\ extOffset' \in {None} \cup {Some(o) : o \in ExtOffsets}
    /\ <<extPos', extOffset'>> # <<extPos, extOffset>>
    /\ UNCHANGED <<elasticity, hasOnClick, mounted, rect, intPos, intOffset,
                   isHovered, isActive>>
    /\ UNCHANGED <<mvars, zvars, svars>>

\* onMouseEnter / onMouseLeave / onMouseDown / onMouseUp of the .glass element
onMouseEnter ==
    /\ mounted /\ isHovered' = TRUE
    /\ UNCHANGED <<elasticity, hasOnClick, extPos, extOffset, mounted, rect,
                   intPos, intOffset, isActive>>
    /\ UNCHANGED <<mvars, zvars, svars>>
\* (faulty variant: leaving the glass also releases the press)
onMouseLeave_releases ==
    /\ mounted /\ isHovered' = FALSE /\ isActive' = FALSE
    /\ UNCHANGED <<elasticity, hasOnClick, extPos, extOffset, mounted, rect,
                   intPos, intOffset>>
    /\ UNCHANGED <<mvars, zvars, svars>>
onMouseLeave ==
    /\ mounted /\ isHovered' = FALSE
    /\ UNCHANGED <<elasticity, hasOnClick, extPos, extOffset, mounted, rect,
                   intPos, intOffset, isActive>>
    /\ UNCHANGED <<mvars, zvars, svars>>
onMouseDown ==
    /\ mounted /\ isActive' = TRUE
    /\ UNCHANGED <<elasticity, hasOnClick, extPos, extOffset, mounted, rect,
                   intPos, intOffset, isHovered>>
    /\ UNCHANGED <<mvars, zvars, svars>>
onMouseUp ==
    /\ mounted /\ isActive' = FALSE
    /\ UNCHANGED <<elasticity, hasOnClick, extPos, extOffset, mounted, rect,
                   intPos, intOffset, isHovered>>
    /\ UNCHANGED <<mvars, zvars, svars>>

\* the first render: glassRef is not set yet and no pointer was seen; the
\* props, the place of the glass and the size it was measured at are inputs
TInit ==
    /\ elasticity \in Elasticities
    /\ hasOnClick \in BOOLEAN
    /\ extPos = None /\ extOffset = None
    /\ mounted = FALSE
    /\ rect \in Rects
    /\ glassSize \in Sizes /\ glassNext = glassSize
    /\ intPos = Pos(0, 0) /\ intOffset = Pos(0, 0)
    /\ isHovered = FALSE /\ isActive = FALSE
    /\ MouseIdle /\ SizeIdle /\ ShaderIdle

TNext ==
    \/ TMount \/ TMouseMove \/ TExternalPointer
    \/ onMouseEnter \/ onMouseLeave \/ onMouseDown \/ onMouseUp

SpecTransform == TInit /\ [][TNext]_vars

----------------------------------------------------------------------------
(* Claims on the pointer transform (SpecTransform) *)

\* the squared edge distance and the squared activation radius, exact
RefEdgeSq ==
    edgeDistanceX(globalMousePos, rect, glassSize) * edgeDistanceX(globalMousePos, rect, glassSize)
    + edgeDistanceY(globalMousePos, rect, glassSize) * edgeDistanceY(globalMousePos, rect, glassSize)
RefZoneSq == (activationZone * LU) * (activationZone * LU)
PointerScale == calculateDirectionalScale(globalMousePos, elasticity, mounted, rect, glassSize)
PointerTranslate == calculateElasticTranslation(globalMousePos, elasticity, mounted, rect, glassSize)

\* C1: whenever the pointer's edge distance from the glass box is greater
\* than 200, the pointer-derived scale is (1,1) and the elastic translation
\* is (0,0), for every pointer, box and elasticity.
C1_OutsideZoneIdentity ==
    RefEdgeSq > RefZoneSq =>
        LET sc == PointerScale
        IN /\ sc.x = FP /\ sc.y = FP
           /\ PointerTranslate = Pos(0, 0)
\* a mounted glass, a pointer with non-zero coordinates just outside the
\* zone (edge distance at most 201) and a non-zero elasticity
C1_Witness ==
    /\ mounted /\ elasticity # 0
    /\ ~Falsy(globalMousePos.x) /\ ~Falsy(globalMousePos.y)
    /\ RefEdgeSq > RefZoneSq
    /\ RefEdgeSq <= ((activationZone + 1) * LU) * ((activationZone + 1) * LU)
    /\ PointerTranslate = Pos(0, 0)

\* C2: in every reachable state the scaleX and scaleY factors of the applied
\* transform are at least 0.8.
C2_ScaleFloor ==
    LET sc == appliedTransform.scale
    IN sc.x >= Div(80 * FP, 100) /\ sc.y >= Div(80 * FP, 100)
\* the floor acts: inside the zone the unfloored factor is below 0.8
C2_Witness ==
    /\ mounted /\ ~isActive
    /\ ~Falsy(globalMousePos.x) /\ ~Falsy(globalMousePos.y)
    /\ RefEdgeSq <= RefZoneSq
    /\ centerDistance(globalMousePos, rect) # 0
    /\ rawScaleX(globalMousePos, elasticity, rect, glassSize) < Div(80 * FP, 100)
    /\ appliedTransform.scale.x = Div(80 * FP, 100)

\* (pointer - boxCenter) * elasticity * 0.1 * (1 - edgeDistance/200), per axis
RefTranslate ==
    LET fade == FadeRamp(globalMousePos, rect, glassSize)
    IN Pos(ElasticAxis(deltaX(globalMousePos, rect), elasticity, fade),
           ElasticAxis(deltaY(globalMousePos, rect), elasticity, fade))
\* C3: for every pointer whose edge distance to the glass box is at most
\* 200, the elastic translation equals, per axis,
\* (pointer - boxCenter) * elasticity * 0.1 * (1 - edgeDistance/200).
C3_TranslationFormula ==
    (mounted /\ RefEdgeSq <= RefZoneSq) => PointerTranslate = RefTranslate

\* C4: while isActive is set and a click handler is present the scale part
\* of the applied transform is scale(0.96); otherwise it is the
\* pointer-derived scale; the translate part is the elastic translation in
\* both cases.
C4_PressedOverride ==
    LET t == appliedTransform
    IN /\ (isActive /\ hasOnClick) =>
              /\ t.scale.fn = "scale"
              /\ t.scale.x = Div(96 * FP, 100)
              /\ t.scale.y = Div(96 * FP, 100)
       /\ ~(isActive /\ hasOnClick) => t.scale = PointerScale
       /\ t.translate = PointerTranslate
\* pressed with a click handler while the pointer alone would stretch the
\* glass and pulls it sideways
C4_Witness ==
    /\ mounted /\ isActive /\ hasOnClick
    /\ PointerScale.fn = "scaleXY" /\ PointerScale.x > FP
    /\ PointerTranslate.x # 0
    /\ appliedTransform.scale.x = Div(96 * FP, 100)
    /\ appliedTransform.translate = PointerTranslate

----------------------------------------------------------------------------
(* DisplacementMapSource and ShaderDisplacementGenerator: lines 5-32 *)

\* map references: the three imported assets, a generated data URL, the
\* empty string and undefined
Asset(name) == [kind |-> "asset", name |-> name]
displacementMap == Asset("standard")
polarDisplacementMap == Asset("polar")
prominentDisplacementMap == Asset("prominent")
DataUrl(w, h) == [kind |-> "dataUrl", w |-> w, h |-> h]
EmptyString == [kind |-> "empty"]
Undefined == [kind |-> "undefined"]
\* a string or undefined used as a condition
FalsyRef(u) == u.kind \in {"empty", "undefined"}

Returns(v) == [ok |-> TRUE, value |-> v]
Throws(e) == [ok |-> FALSE, error |-> e]

\* (faulty variant: the shader case passes shaderMapUrl through)
getMap_noFallback(m, url) ==
    CASE m = "standard" -> Returns(displacementMap)
      [] m = "polar" -> Returns(polarDisplacementMap)
      [] m = "prominent" -> Returns(prominentDisplacementMap)
      [] m = "shader" -> Returns(url)
      [] OTHER -> Throws("Invalid mode")
\* (faulty variant: the default case falls back to the standard asset)
getMap_defaultAsset(m, url) ==
    CASE m = "standard" -> Returns(displacementMap)
      [] m = "polar" -> Returns(polarDisplacementMap)
      [] m = "prominent" -> Returns(prominentDisplacementMap)
      [] m = "shader" -> Returns(IF FalsyRef(url) THEN displacementMap ELSE url)
      [] OTHER -> Returns(displacementMap)
\* getMap(mode, shaderMapUrl)
getMap(m, url) ==
    CASE m = "standard" -> Returns(displacementMap)
      [] m = "polar" -> Returns(polarDisplacementMap)
      [] m = "prominent" -> Returns(prominentDisplacementMap)
      [] m = "shader" -> Returns(IF FalsyRef(url) THEN displacementMap ELSE url)
      [] OTHER -> Throws("Invalid mode")

\* ShaderDisplacementGenerator (shader-utils): what a generation meets
\*   "ok"                  the context is acquired and the map is rendered
\*   "contextUnavailable"  the constructor cannot acquire a rendering context
\*   "renderFailed"        updateShader fails while rendering / encoding
Outcomes == {"ok", "contextUnavailable", "renderFailed"}
\* new ShaderDisplacementGenerator({width, height, fragment})
GeneratorNew(o) ==
    IF o = "contextUnavailable" THEN Throws("RenderContextUnavailableError")
    ELSE Returns("generator")
\* generator.updateShader()
GeneratorUpdateShader(w, h, o) ==
    IF o = "renderFailed" THEN Throws("render failed") ELSE Returns(DataUrl(w, h))

\* generateShaderDisplacementMap(width, height): the result, and how many
\* generators the call constructed and destroyed
generateShaderDisplacementMap(w, h, o) ==
    IF ~GeneratorNew(o).ok
    THEN [result |-> GeneratorNew(o), constructed |-> 0, destroyed |-> 0]
    ELSE IF ~GeneratorUpdateShader(w, h, o).ok
    THEN [result |-> GeneratorUpdateShader(w, h, o), constructed |-> 1, destroyed |-> 0]
    ELSE [result |-> GeneratorUpdateShader(w, h, o), constructed |-> 1, destroyed |-> 1]

----------------------------------------------------------------------------
(* GlassContainer and GlassFilter: lines 35-61, 194-220 *)

\* Number of generations explored.
MaxGen == 3

Modes == {"standard", "polar", "prominent", "shader"}
\* a mode string outside the union type
ModeInputs == Modes \cup {"glossy"}
UrlInputs == {Undefined, EmptyString, DataUrl(270, 69), DataUrl(200, 100)}
BoxSizes == {<<270, 69>>, <<200, 100>>}

\* <feImage href={getMap(mode, shaderMapUrl)}>: the render of GlassFilter
FilterHref == getMap(mode, shaderMapUrl)

\* (faulty variant: the effect depends on the mode only)
ShaderDepsChanged_modeOnly(m, w, h) == m # mode
\* the dependency list [mode, glassSize.width, glassSize.height] of the
\* shader effect, compared with the one of the previous render
ShaderDepsChanged(m, w, h) == <<m, w, h>> # <<mode, boxW, boxH>>

\* GlassContainer renders with the props the parent passes; a throw in
\* GlassFilter's render unmounts the tree; otherwise the shader effect is
\* scheduled when one of [mode, glassSize.width, glassSize.height] changed
GRender ==
    /\ ~crashed /\ ~shaderPending /\ acquired < MaxGen
    /\ \E m \in ModeInputs, b \in BoxSizes :
          /\ <<m, b[1], b[2]>> # <<mode, boxW, boxH>>
          /\ mode' = m /\ boxW' = b[1] /\ boxH' = b[2]
          /\ crashed' = ~getMap(m, shaderMapUrl).ok
          /\ shaderPending' = (getMap(m, shaderMapUrl).ok
                                /\ ShaderDepsChanged(m, b[1], b[2]))
    /\ UNCHANGED <<shaderMapUrl, acquired, released, genOutcome, lastMap>>
    /\ UNCHANGED <<tvars, mvars, zvars>>

\* useEffect(() => { if (mode === "shader") { const url =
\* generateShaderDisplacementMap(...); setShaderMapUrl(url) } }, [...]);
\* an exception leaving the effect unmounts the tree; setShaderMapUrl
\* re-renders GlassFilter with the new url
GShaderEffect ==
    /\ ~crashed /\ shaderPending
    /\ shaderPending' = FALSE
    /\ IF mode = "shader"
       THEN \E o \in Outcomes :
               LET g == generateShaderDisplacementMap(boxW, boxH, o)
               IN /\ genOutcome' = o
                  /\ acquired' = acquired + g.constructed
                  /\ released' = released + g.destroyed
                  /\ IF g.result.ok
                     THEN /\ shaderMapUrl' = g.result.value
                          /\ crashed' = ~getMap(mode, g.result.value).ok
                     ELSE /\ crashed' = TRUE
                          /\ UNCHANGED shaderMapUrl
       ELSE UNCHANGED <<shaderMapUrl, acquired, released, genOutcome, crashed>>
    /\ UNCHANGED <<mode, boxW, boxH, lastMap>>
    /\ UNCHANGED <<tvars, mvars, zvars>>

\* getMap applied to a pair of arguments
GCallGetMap ==
    /\ \E m \in ModeInputs, u \in UrlInputs :
          lastMap' = Some([mode |-> m, url |-> u, result |-> getMap(m, u)])
    /\ UNCHANGED <<mode, boxW, boxH, shaderMapUrl, shaderPending, acquired,
                   released, genOutcome, crashed>>
    /\ UNCHANGED <<tvars, mvars, zvars>>

\* after the first render of GlassContainer: useState(""), effect scheduled
GInit ==
    /\ mode \in ModeInputs
    /\ \E b \in BoxSizes : boxW = b[1] /\ boxH = b[2]
    /\ shaderMapUrl = EmptyString
    /\ crashed = ~getMap(mode, EmptyString).ok
    /\ shaderPending = getMap(mode, EmptyString).ok
    /\ acquired = 0 /\ released = 0 /\ genOutcome = "none"
    /\ lastMap = None
    /\ PointerIdle /\ mounted = TRUE
    /\ glassSize = Size(boxW, boxH, 0) /\ glassNext = glassSize
    /\ MouseIdle /\ SizeIdle

GNext == GRender \/ GShaderEffect \/ GCallGetMap

SpecShader == GInit /\ [][GNext]_vars

----------------------------------------------------------------------------
(* Claims on getMap and shader generation (SpecShader) *)

\* C5: getMap returns the mode's fixed asset for standard, polar and
\* prominent whatever shaderMapUrl is; for shader it returns shaderMapUrl
\* when that is a generated map and the standard asset when it is absent or
\* the empty string; the filter of a valid mode never gets an empty reference.
C5_GetMapReference ==
    /\ lastMap.set =>
          LET c == lastMap.v
          IN /\ c.mode \in {"standard", "polar", "prominent"} =>
                    c.result.ok /\ c.result.value = [kind |-> "asset", name |-> c.mode]
             /\ c.mode = "shader" =>
                    /\ c.result.ok
                    /\ c.url.kind = "dataUrl" => c.result.value = c.url
                    /\ c.url.kind # "dataUrl" =>
                           c.result.value = [kind |-> "asset", name |-> "standard"]
    /\ (~crashed /\ mode \in Modes) =>
          FilterHref.ok /\ FilterHref.value.kind \in {"asset", "dataUrl"}
\* shader mode asked with the empty string, and shader mode rendered before
\* any generation
C5_Witness ==
    /\ lastMap.set /\ lastMap.v.mode = "shader" /\ lastMap.v.url = EmptyString
    /\ lastMap.v.result.value = displacementMap
    /\ mode = "shader" /\ ~crashed /\ shaderMapUrl = EmptyString

\* C6: getMap with a mode other than standard, polar, prominent or shader
\* fails and returns no reference, and no filter is rendered for such a mode.
C6_InvalidModeFails ==
    /\ (lastMap.set /\ lastMap.v.mode \notin Modes) =>
          ~lastMap.v.result.ok /\ "value" \notin DOMAIN lastMap.v.result
    /\ mode \notin Modes => crashed
\* an invalid mode was asked for, and one was rendered after valid ones
C6_Witness ==
    /\ lastMap.set /\ lastMap.v.mode \notin Modes /\ ~lastMap.v.result.ok
    /\ mode \notin Modes /\ crashed /\ acquired > 0

\* C7: every generation call destroys the generator it constructed before it
\* returns or fails, so constructions equal destructions after any sequence
\* of generation calls.
C7_GeneratorsReleased == acquired = released

\* C8: when generation fails in shader mode because the rendering context
\* cannot be acquired, the exception does not leave the component and the
\* filter is wired to the standard displacement map.
C8_FailureFallsBack ==
    (mode = "shader" /\ genOutcome = "contextUnavailable") =>
        ~crashed /\ FilterHref = Returns(displacementMap)

\* GlassFilter's feDisplacementMap scales, lines 81, 93 and 105, in 1/FP:
\* displacementScale * ((mode === "shader" ? 1 : -1) - aberrationIntensity * k)
DisplacementScales == {70, 35, 25}
AberrationIntensities == {0, 2, 3}
displacementSign(m) == IF m = "shader" THEN 1 ELSE -1
redScale(ds, ai, m) == ds * displacementSign(m) * FP
greenScale(ds, ai, m) == ds * (displacementSign(m) * FP - Div(ai * 5 * FP, 100))
blueScale(ds, ai, m) == ds * (displacementSign(m) * FP - Div(ai * FP, 10))

\* the sign that belongs to a map reference: +1 for a generated map, -1 for
\* one of the static assets
SignOfMap(ref) == IF ref.kind = "dataUrl" THEN 1 ELSE -1

\* C11: in every rendered filter the displacement sign matches the map that
\* is wired in (-1 for a static asset, +1 for a shader-rendered map), and the
\* channel scales are scale*sign, scale*(sign - intensity*0.05) and
\* scale*(sign - intensity*0.1).
C11_SignMatchesMap ==
    (~crashed /\ FilterHref.ok) =>
        LET sign == SignOfMap(FilterHref.value)
        IN \A ds \in DisplacementScales, ai \in AberrationIntensities :
              /\ redScale(ds, ai, mode) = ds * sign * FP
              /\ greenScale(ds, ai, mode) = ds * (sign * FP - Div(ai * 5 * FP, 100))
              /\ blueScale(ds, ai, mode) = ds * (sign * FP - Div(ai * FP, 10))

----------------------------------------------------------------------------
(* LiquidGlass: the mouse tracking effect, lines 333-375 *)

\* the element mouseContainer.current points to, and its bounding rect
OuterRect == Rect(0, 0, 800, 600)
TrackPointers == {Pos(200, 300), Pos(500, 300)}

\* mouseContainer?.current || glassRef.current ("null": neither is set)
Container(mc, cur, m) ==
    IF mc = "ref" /\ cur # "null" THEN cur
    ELSE IF m THEN "glass" ELSE "null"
RectOf(el) == IF el = "outer" THEN OuterRect ELSE rect

\* (faulty variant: the effect returns no cleanup)
MouseEffectCleanup_none(ls, fx) == ls
\* the effect's cleanup: container.removeEventListener("mousemove", handleMouseMove)
MouseEffectCleanup(ls, fx) == IF fx.set THEN ls \ {fx.v} ELSE ls

\* the effect's body: the listener it adds, None when it returns early.  A
\* listener is the element it is on and the mouseContainer prop its
\* handleMouseMove closed over.
MouseEffectBody(ep, eo, mc, cur, m) ==
    IF ep.set /\ eo.set THEN None
    ELSE IF Container(mc, cur, m) = "null" THEN None
    ELSE Some([target |-> Container(mc, cur, m), mc |-> mc])

\* the parent renders LiquidGlass with other pointer props; `fresh`: the
\* objects passed are new ones even where their values are the old ones
MRender ==
    /\ mounted /\ ~mousePending
    /\ \E ep \in {None} \cup {Some(p) : p \in ExtPositions},
          eo \in {None} \cup {Some(o) : o \in ExtOffsets},
          mc \in {"null", "ref"}, fresh \in BOOLEAN :
          /\ extPos' = ep /\ extOffset' = eo /\ mouseContainer' = mc
          /\ \/ <<ep, eo, mc>> # <<extPos, extOffset, mouseContainer>>
             \/ fresh /\ (ep.set \/ eo.set \/ mc = "ref")
          /\ mousePending' = TRUE
    /\ UNCHANGED <<mcCurrent, listeners, mouseFx>>
    /\ UNCHANGED <<elasticity, hasOnClick, mounted, rect, intPos, intOffset,
                   isHovered, isActive>>
    /\ UNCHANGED <<zvars, svars>>

\* the parent attaches or detaches the element of its ref
MRefChange ==
    /\ mounted
    /\ mcCurrent' \in {"null", "outer"} \ {mcCurrent}
    /\ UNCHANGED <<mouseContainer, listeners, mouseFx, mousePending>>
    /\ UNCHANGED <<tvars, zvars, svars>>

\* the scheduled mouse tracking effect runs: cleanup of the previous run,
\* then the body
MFlush ==
    /\ mounted /\ mousePending
    /\ mousePending' = FALSE
    /\ LET fx == MouseEffectBody(extPos, extOffset, mouseContainer, mcCurrent, mounted)
       IN /\ mouseFx' = fx
          /\ listeners' = MouseEffectCleanup(listeners, mouseFx)
                            \cup (IF fx.set THEN {fx.v} ELSE {})
    /\ UNCHANGED <<mouseContainer, mcCurrent>>
    /\ UNCHANGED <<tvars, zvars, svars>>

\* a mousemove reaches a registered listener: handleMouseMove(e)
MMouseMove ==
    /\ \E l \in listeners, p \in TrackPointers :
          LET container == Container(l.mc, mcCurrent, mounted)
          IN IF container = "null"
             THEN UNCHANGED <<intPos, intOffset>>
             ELSE /\ intOffset' = handleMouseMoveOffset(p.x, p.y, RectOf(container))
                  /\ intPos' = handleMouseMovePos(p.x, p.y)
    /\ UNCHANGED <<elasticity, hasOnClick, extPos, extOffset, mounted, rect,
                   isHovered, isActive>>
    /\ UNCHANGED <<mvars, zvars, svars>>

\* LiquidGlass unmounts: the cleanup of the effect runs
MUnmount ==
    /\ mounted
    /\ mounted' = FALSE
    /\ listeners' = MouseEffectCleanup(listeners, mouseFx)
    /\ mouseFx' = None /\ mousePending' = FALSE
    /\ UNCHANGED <<mouseContainer, mcCurrent>>
    /\ UNCHANGED <<elasticity, hasOnClick, extPos, extOffset, rect, intPos,
                   intOffset, isHovered, isActive>>
    /\ UNCHANGED <<zvars, svars>>

\* after the first commit: glassRef is set, the effect is scheduled
MInit ==
    /\ elasticity = Div(15 * FP, 100) /\ hasOnClick = FALSE
    /\ extPos \in {None} \cup {Some(p) : p \in ExtPositions}
    /\ extOffset \in {None} \cup {Some(o) : o \in ExtOffsets}
    /\ mouseContainer \in {"null", "ref"} /\ mcCurrent \in {"null", "outer"}
    /\ mounted = TRUE /\ rect = Rect(100, 250, 200, 100)
    /\ intPos = Pos(0, 0) /\ intOffset = Pos(0, 0)
    /\ isHovered = FALSE /\ isActive = FALSE
    /\ listeners = {} /\ mouseFx = None /\ mousePending = TRUE
    /\ glassSize = DefaultSize /\ glassNext = glassSize
    /\ SizeIdle /\ ShaderIdle

MNext == MRender \/ MRefChange \/ MFlush \/ MMouseMove \/ MUnmount

SpecTracking == MInit /\ [][MNext]_vars

\* C9: whenever both external pointer values are supplied and the effects
\* have run, no mousemove listener is registered (one registered earlier has
\* been removed), and the pointer values the render uses are the external ones.
C9_ExternalSuppressesListener ==
    (extPos.set /\ extOffset.set) =>
        /\ ~mousePending => listeners = {}
        /\ globalMousePos = extPos.v /\ mouseOffset = extOffset.v
\* external tracking after internal tracking: a mousemove was handled by the
\* internal listener, both external values are supplied now, effects have run
C9_Witness ==
    /\ mounted /\ extPos.set /\ extOffset.set /\ ~mousePending
    /\ intPos # Pos(0, 0) /\ intPos # extPos.v
    /\ listeners = {}

----------------------------------------------------------------------------
(* LiquidGlass: GlassSizeTracker, lines 325, 466-515 *)

\* Number of distinct objects the parent passes per external size.
MaxId == 2
ExtDims == {<<300, 80>>, <<120, 40>>}
ExtSizes == {Size(d[1], d[2], id) : d \in ExtDims, id \in 1..MaxId}
\* sizes the rendered .glass element takes
DomBoxes == {DefaultSize, Size(200, 100, 0), Size(300, 80, 0)}
SameDims(a, b) == a.width = b.width /\ a.height = b.height

\* (faulty variant: measureGlassSize without the externalGlassSize guard)
measureGlassSize_noGuard(ext, hasEl, box, prev) ==
    IF ~hasEl THEN prev
    ELSE IF SameDims(prev, box) THEN prev ELSE Size(box.width, box.height, 0)
\* measureGlassSize, as created by a render whose externalGlassSize was ext:
\* the glassSize state after its setGlassSize((prev) => ...), from prev
measureGlassSize(ext, hasEl, box, prev) ==
    IF ext.set THEN prev
    ELSE IF ~hasEl THEN prev
    ELSE IF SameDims(prev, box) THEN prev ELSE Size(box.width, box.height, 0)

\* useState(externalGlassSize ?? { width: 270, height: 69 })
InitialGlassSize(ext) == IF ext.set THEN ext.v ELSE DefaultSize
\* externalGlassSize?.width, externalGlassSize?.height
ExtDimsOf(ext) == IF ext.set THEN <<ext.v.width, ext.v.height>> ELSE <<-1, -1>>

\* the body of the effect of lines 486-509, from the queued state q: the
\* state it queues and what it registers (handleResize and, where
\* ResizeObserver exists, an observer; both close over measureGlassSize)
SizeEffectQueued(ext, box, q) ==
    IF ext.set THEN ext.v ELSE measureGlassSize(ext, mounted, box, q)
SizeEffectRegisters(ext, ro) ==
    IF ext.set THEN None ELSE Some([ext |-> ext, observer |-> ro])
\* the body of the effect of lines 511-515
SyncEffectQueued(ext, q) == IF ext.set THEN ext.v ELSE q

\* the parent renders LiquidGlass with another glassSize prop, or with other
\* children / padding.  The render sees the queued state; the layout effect
\* (481-483) runs in the commit when measureGlassSize, children or padding
\* changed; the two passive effects are scheduled by their dependencies.
ZRender ==
    /\ mounted /\ ~sizePending /\ ~syncPending
    /\ \E ext \in {None} \cup {Some(z) : z \in ExtSizes}, children \in BOOLEAN :
          /\ ext # extGlass \/ children
          /\ extGlass' = ext
          /\ glassSize' = glassNext
          /\ glassNext' = measureGlassSize(ext, mounted, domBox, glassNext)
          /\ sizePending' = (ext # extGlass)
          /\ syncPending' = (ExtDimsOf(ext) # ExtDimsOf(extGlass))
    /\ UNCHANGED <<domBox, sizeFx>>
    /\ UNCHANGED <<tvars, mvars, svars>>

\* a queued setGlassSize made the state differ: LiquidGlass renders again
ZStateRender ==
    /\ mounted /\ ~sizePending /\ ~syncPending
    /\ glassNext # glassSize
    /\ glassSize' = glassNext
    /\ UNCHANGED <<extGlass, glassNext, domBox, sizeFx, sizePending, syncPending>>
    /\ UNCHANGED <<tvars, mvars, svars>>

\* the scheduled passive effects run: the cleanup of the resize effect
\* (removeEventListener, observer.disconnect), then the bodies in order
ZFlush ==
    /\ mounted /\ (sizePending \/ syncPending)
    /\ \E ro \in BOOLEAN :
          LET q1 == IF sizePending THEN SizeEffectQueued(extGlass, domBox, glassNext)
                    ELSE glassNext
              q2 == IF syncPending THEN SyncEffectQueued(extGlass, q1) ELSE q1
          IN /\ glassNext' = q2
             /\ sizeFx' = IF sizePending THEN SizeEffectRegisters(extGlass, ro)
                          ELSE sizeFx
    /\ sizePending' = FALSE /\ syncPending' = FALSE
    /\ UNCHANGED <<extGlass, glassSize, domBox>>
    /\ UNCHANGED <<tvars, mvars, svars>>

\* the layout changes the size of the .glass element
ZDomResize ==
    /\ mounted
    /\ domBox' \in DomBoxes \ {domBox}
    /\ UNCHANGED <<extGlass, glassSize, glassNext, sizeFx, sizePending, syncPending>>
    /\ UNCHANGED <<tvars, mvars, svars>>

\* window "resize" reaches the registered handleResize
ZWindowResize ==
    /\ mounted /\ sizeFx.set
    /\ glassNext' = measureGlassSize(sizeFx.v.ext, mounted, domBox, glassNext)
    /\ UNCHANGED <<extGlass, glassSize, domBox, sizeFx, sizePending, syncPending>>
    /\ UNCHANGED <<tvars, mvars, svars>>

\* the connected ResizeObserver calls back
ZObserverCallback ==
    /\ mounted /\ sizeFx.set /\ sizeFx.v.observer
    /\ glassNext' = measureGlassSize(sizeFx.v.ext, mounted, domBox, glassNext)
    /\ UNCHANGED <<extGlass, glassSize, domBox, sizeFx, sizePending, syncPending>>
    /\ UNCHANGED <<tvars, mvars, svars>>

\* after the first commit: useState initialised, the layout effect has run,
\* the passive effects are scheduled
ZInit ==
    /\ PointerIdle /\ mounted = TRUE
    /\ extGlass \in {None} \cup {Some(z) : z \in ExtSizes}
    /\ domBox \in DomBoxes
    /\ glassSize = InitialGlassSize(extGlass)
    /\ glassNext = measureGlassSize(extGlass, TRUE, domBox, glassSize)
    /\ sizeFx = None /\ sizePending = TRUE /\ syncPending = TRUE
    /\ MouseIdle /\ ShaderIdle

ZNext ==
    \/ ZRender \/ ZStateRender \/ ZFlush
    \/ ZDomResize \/ ZWindowResize \/ ZObserverCallback

SpecSize == ZInit /\ [][ZNext]_vars

\* once the effects have run under an external glassSize: nothing is
\* registered that measures, measureGlassSize leaves the state alone, and
\* the state holds the external width and height
C10_Quiescent ==
    (extGlass.set /\ ~sizePending /\ ~syncPending) =>
        /\ sizeFx = None
        /\ measureGlassSize(extGlass, mounted, domBox, glassNext) = glassNext
        /\ SameDims(glassNext, extGlass.v)
        /\ glassNext = glassSize => SameDims(glassSize, extGlass.v)
\* while an external glassSize stays supplied, the glassSize a render sees
\* changes only to an external size, never to a measured one
C10_Step ==
    (extGlass.set /\ extGlass'.set /\ glassSize' # glassSize) =>
        SameDims(glassSize', extGlass.v) \/ SameDims(glassSize', extGlass'.v)
\* C10: while an external glassSize is supplied, internal measurement is
\* disabled: no measurement trigger (layout effect, window resize,
\* ResizeObserver callback) changes the glassSize state, and once the
\* effects have run the state holds the external width and height.
C10_ExternalDisablesMeasurement == [](C10_Quiescent) /\ [][C10_Step]_vars
\* an external size is in force while the .glass element measures otherwise
C10_Witness ==
    /\ extGlass.set /\ ~sizePending /\ ~syncPending
    /\ ~SameDims(domBox, extGlass.v) /\ ~SameDims(domBox, DefaultSize)
    /\ glassSize = extGlass.v /\ glassNext = glassSize
    /\ extGlass.v.id = MaxId

\* C12: glassSize writes are idempotent: a write (a re-measurement or a
\* re-application of the external size) whose width and height equal the
\* current ones leaves the state value itself unchanged, so no render of
\* LiquidGlass is due to it.
C12_IdempotentWrites ==
    [][SameDims(glassNext', glassNext) => glassNext' = glassNext]_vars

\* C13: when the pointer leaves (the mouseleave of the glass, which a leave
\* of the tracked container implies), the internally tracked pointer
\* position and offset are reset to their initial values, so that the
\* applied transform is the idle one until the next pointer move.
C13_LeaveResetsPointer ==
    [][(isHovered /\ ~isHovered') =>
          /\ intPos' = Pos(0, 0) /\ intOffset' = Pos(0, 0)
          /\ (~extPos.set => appliedTransform'.translate = Pos(0, 0))]_vars

\* the shader effect runs once for each scheduled run and, when it
\* succeeds, generates one map at the current size; nothing else generates
C14_Step ==
    /\ acquired' # acquired => shaderPending /\ ~shaderPending' /\ mode = "shader"
    /\ (shaderPending /\ ~shaderPending' /\ mode = "shader" /\ ~crashed') =>
          /\ acquired' = acquired + 1
          /\ shaderMapUrl' = DataUrl(boxW, boxH)
    /\ (~shaderPending /\ ~crashed' /\ <<mode', boxW', boxH'>> # <<mode, boxW, boxH>>) =>
          shaderPending'
\* C14: in shader mode, after any sequence of size changes and mode
\* switches, once the pending effect has run the map wired into the filter
\* was generated at the current width and height: each change of size or
\* entry into shader mode schedules one regeneration, and no stale map is
\* left when nothing is pending.
C14_NoStaleShaderMap ==
    /\ []((mode = "shader" /\ ~shaderPending /\ ~crashed) =>
             FilterHref = Returns(DataUrl(boxW, boxH)))
    /\ [][C14_Step]_vars
\* shader mode at the second size after two regenerations, nothing pending
C14_Witness ==
    /\ mode = "shader" /\ ~shaderPending /\ ~crashed
    /\ acquired >= 2 /\ genOutcome = "ok"
    /\ boxW = 200 /\ boxH = 100 /\ shaderMapUrl = DataUrl(200, 100)

\* a step changes isActive only with everything else of the pointer state
\* left alone (mousedown, mouseup); a step that moves the pointer, enters or
\* leaves the glass keeps isActive
C15_Step ==
    /\ isActive' # isActive =>
          UNCHANGED <<elasticity, hasOnClick, extPos, extOffset, mounted, rect,
                      intPos, intOffset, isHovered>>
    /\ (isHovered' # isHovered \/ intPos' # intPos \/ intOffset' # intOffset) =>
          isActive' = isActive
\* C15: isActive is changed only by mousedown (set) and mouseup (cleared)
\* on the glass; pointer moves, mouseenter and mouseleave leave it
\* unchanged, so after a mousedown followed by the pointer leaving the
\* glass the press (and, with a click handler, the pressed scale) stays
\* until a mouseup.
C15_ActiveFrame ==
    /\ []((isActive /\ hasOnClick /\ ~isHovered) =>
             appliedTransform.scale = PressedScale)
    /\ [][C15_Step]_vars
\* a press is held, with the pressed scale, while the pointer is not over
\* the glass and after pointer samples were taken
C15_Witness ==
    /\ mounted /\ isActive /\ ~isHovered /\ hasOnClick
    /\ intPos # Pos(0, 0)
    /\ appliedTransform.scale = PressedScale

====
